---- MODULE Spec2Model ----
(***************************************************************************)
(* MiniSCADA (src/mini_scada.py): the telemetry poll, the 1 Hz safety      *)
(* logic tick, the E-Stop toggle and the operator log of ScadaDashboard.   *)
(* Temperatures are whole degrees; a telemetry line is the sequence of its *)
(* comma-separated fields.                                                 *)
(***************************************************************************)
EXTENDS Integers, Sequences, FiniteSets, TLC

\* ------------------------------------------------------------------------
\* Program constants (src/mini_scada.py:62-80)
\* ------------------------------------------------------------------------
MAX_LOG_ENTRIES == 50

TEMP_THRESHOLD_WARNING == 40

TEMP_THRESHOLD_CRITICAL == 50

COUNTDOWN_START_SECONDS == 20

USE_SIMULATION == FALSE

\* ------------------------------------------------------------------------
\* Bounds of the model
\* ------------------------------------------------------------------------
\* logic ticks that may advance the runtime counter
MaxRuntime == 22

\* entries the operator log may receive in one run
MaxLogged == 6

\* lines in one burst read from the serial buffer
MaxBurst == 2

\* logic ticks that may advance the runtime counter when the presentation runs too
MaxDisplayRuntime == 3

\* calls of log_event in a log-only run
MaxAppends == 3

\* logic ticks that may advance the runtime counter under each threshold configuration
MaxConfigRuntime == 2

VARIABLES
    serial_connection,    \* "unset" | "Serial" | "MockSerial"
    current_temp,
    is_estopped,
    is_hard_paused,
    runtime_seconds,
    countdown_val,
    is_countdown_active,
    current_severity,
    log,                  \* log_widget: the messages, oldest first
    btn_is_active,        \* btn_estop.is_active
    overlay_visible,      \* overlay.isVisible()
    last_branch,          \* history: the handler (and branch) that ran last
    critical_streak,      \* history: consecutive critical ticks since the countdown was idle
    countdown_cancelled,  \* history: the last handler was a tick that cancelled a running countdown
    pause_trace,          \* history: "held" -> "cleared" -> "resumed" around a hard pause
    system_status,        \* the status text update_animation showed last
    burst,                \* history: the lines the last inspected poll read, oldest first
    held,                 \* history: the reading held before the last inspected poll
    config,               \* the thresholds the module was loaded with
    write_failed,         \* history: the command write of the handler that ran last raised
    hot_ticks,            \* history: latest non-emergency ticks in a row that saw a critical
                          \* temperature, no resume among them (counted up to the countdown start)
    appended,             \* history: every item log_event created in the log-only runs
    resume_trace          \* history: "resumed" from a resume to the next tick of the
                          \* non-emergency branch, "ticked" from that tick to the next one

vars == <<serial_connection, current_temp, is_estopped, is_hard_paused,
          runtime_seconds, countdown_val, is_countdown_active, current_severity,
          log, btn_is_active, overlay_visible, last_branch, critical_streak,
          countdown_cancelled, pause_trace, system_status, burst, held,
          config, write_failed, hot_ticks, appended, resume_trace>>

\* ------------------------------------------------------------------------
\* Telemetry text: float(), int(), "ERROR" in line, line.split(",")
\* ------------------------------------------------------------------------
\* float(field) succeeds
IsFloat(field) == field \in {"0", "1", "30", "40", "49", "50"}

FloatOf(field) ==
    CASE field = "0" -> 0
      [] field = "1" -> 1
      [] field = "30" -> 30
      [] field = "40" -> 40
      [] field = "49" -> 49
      [] field = "50" -> 50

\* int(field) succeeds
IsInt(field) == field \in {"0", "1", "30", "40", "49", "50"}

IntOf(field) == FloatOf(field)

\* "ERROR" in line
HasError(line) == \E i \in 1..Len(line) : line[i] = "ERROR"

\* the lines a burst is made of: well-formed, short, malformed, sentinel, blank
Lines ==
    { <<"0", "30", "1">>, <<"0", "40", "1">>, <<"0", "49", "1">>,
      <<"0", "50", "1">>, <<"0", "30", "0">>, <<"0", "50", "0">>,
      <<"0", "abc", "1">>, <<"0", "50", "x">>, <<"0", "30">>,
      <<"garbage">>, <<"ERROR">>, <<"">> }

Bursts == UNION { [1..n -> Lines] : n \in 0..MaxBurst }

\* temperatures MockSerial.read_all can format (25 + 30 sin(..) + noise)
MockTemps == {30, 40, 49, 50}

\* mutants of the line loop: "noBreak" goes on to older lines after a reading was
\* taken, "stopAtMalformed" ends the loop at a line it cannot parse, "badTempZero"
\* stores 0 for a temperature that is not a number
RECURSIVE ProcessLines_variant(_, _, _, _, _)
ProcessLines_variant(lines, i, temp, paused, bug) ==
    IF i = 0 THEN [temp |-> temp, paused |-> paused]
    ELSE LET line == lines[i]
             stop == [temp |-> temp, paused |-> paused]
             skip == IF bug = "stopAtMalformed" THEN stop
                     ELSE ProcessLines_variant(lines, i - 1, temp, paused, bug)
         IN
         IF line = <<"">> THEN ProcessLines_variant(lines, i - 1, temp, paused, bug)
         ELSE IF HasError(line) THEN ProcessLines_variant(lines, i - 1, temp, paused, bug)
         ELSE IF Len(line) >= 3
              THEN IF IsFloat(line[2])
                   THEN IF IsInt(line[3])
                        THEN IF bug = "noBreak"
                             THEN ProcessLines_variant(lines, i - 1, FloatOf(line[2]),
                                                       IntOf(line[3]) = 0, bug)
                             ELSE [temp |-> FloatOf(line[2]), paused |-> (IntOf(line[3]) = 0)]
                        ELSE IF bug = "stopAtMalformed"
                             THEN [temp |-> FloatOf(line[2]), paused |-> paused]
                             ELSE ProcessLines_variant(lines, i - 1, FloatOf(line[2]), paused, bug)
                   ELSE IF bug = "badTempZero"
                        THEN ProcessLines_variant(lines, i - 1, 0, paused, bug)
                        ELSE skip
              ELSE skip

ProcessLines_noBreak(lines, i, temp, paused) ==
    ProcessLines_variant(lines, i, temp, paused, "noBreak")

ProcessLines_stopAtMalformed(lines, i, temp, paused) ==
    ProcessLines_variant(lines, i, temp, paused, "stopAtMalformed")

ProcessLines_badTempZero(lines, i, temp, paused) ==
    ProcessLines_variant(lines, i, temp, paused, "badTempZero")

\* for line in reversed(lines): ... ; the reading held when the loop ends
RECURSIVE ProcessLines(_, _, _, _)
ProcessLines(lines, i, temp, paused) ==
    IF i = 0 THEN [temp |-> temp, paused |-> paused]
    ELSE LET line == lines[i] IN
         IF line = <<"">> THEN ProcessLines(lines, i - 1, temp, paused)
         ELSE IF HasError(line) THEN ProcessLines(lines, i - 1, temp, paused)
         ELSE IF Len(line) >= 3
              THEN IF IsFloat(line[2])
                   THEN IF IsInt(line[3])
                        THEN [temp |-> FloatOf(line[2]), paused |-> (IntOf(line[3]) = 0)]
                        ELSE ProcessLines(lines, i - 1, FloatOf(line[2]), paused)
                   ELSE ProcessLines(lines, i - 1, temp, paused)
              ELSE ProcessLines(lines, i - 1, temp, paused)

\* every value current_temp can hold: the initial 0.0 and the parsed temperatures
Temps == {0} \cup { FloatOf(line[2]) : line \in { l \in Lines : Len(l) >= 3 /\ IsFloat(l[2]) } }

\* the readings one poll of the serial port can leave, by the reading held before it
PollOutcomes ==
    [ temp \in Temps, paused \in BOOLEAN |->
        { ProcessLines(lines, Len(lines), temp, paused) : lines \in Bursts } ]

\* ------------------------------------------------------------------------
\* Operator log
\* ------------------------------------------------------------------------
\* mutant: the oldest entry is taken out one append too late
log_event_lateEvict(l, message) ==
    IF Len(l) > MAX_LOG_ENTRIES THEN Append(Tail(l), message) ELSE Append(l, message)

\* mutant: a full log gives up its newest entry
log_event_dropNewest(l, message) ==
    IF Len(l) >= MAX_LOG_ENTRIES THEN Append(SubSeq(l, 1, Len(l) - 1), message)
    ELSE Append(l, message)

\* log_event: the messages of log_widget after the call, oldest first
log_event(l, message) ==
    IF Len(l) >= MAX_LOG_ENTRIES THEN Append(Tail(l), message) ELSE Append(l, message)

\* ------------------------------------------------------------------------
\* Log items: the text of a message, character by character, and its colour
\* ------------------------------------------------------------------------
\* "ERR: Connection Lost"
TextConnectionLost ==
    <<"E", "R", "R", ":", " ", "C", "o", "n", "n", "e", "c", "t", "i", "o", "n", " ",
      "L", "o", "s", "t">>

\* "OP: E-STOP RESUMED"
TextResumed ==
    <<"O", "P", ":", " ", "E", "-", "S", "T", "O", "P", " ", "R", "E", "S", "U", "M",
      "E", "D">>

\* "STATUS: HIGH TEMPERATURE"
TextHighTemperature ==
    <<"S", "T", "A", "T", "U", "S", ":", " ", "H", "I", "G", "H", " ", "T", "E", "M",
      "P", "E", "R", "A", "T", "U", "R", "E">>

\* "STATUS: NORMAL"
TextNormal ==
    <<"S", "T", "A", "T", "U", "S", ":", " ", "N", "O", "R", "M", "A", "L">>

\* "SYS: Port Open (COM10)"
TextPortOpen ==
    <<"S", "Y", "S", ":", " ", "P", "o", "r", "t", " ", "O", "p", "e", "n", " ", "(",
      "C", "O", "M", "1", "0", ")">>

\* "SYS: Switching to Sim (Fail)"
TextSwitchingToSim ==
    <<"S", "Y", "S", ":", " ", "S", "w", "i", "t", "c", "h", "i", "n", "g", " ", "t",
      "o", " ", "S", "i", "m", " ", "(", "F", "a", "i", "l", ")">>

\* "SYS: Sim Mode Active"
TextSimModeActive ==
    <<"S", "Y", "S", ":", " ", "S", "i", "m", " ", "M", "o", "d", "e", " ", "A", "c",
      "t", "i", "v", "e">>

\* "ALARM: TIMER EXPIRED - INITIATING AUTO E-STOP"
TextTimerExpired ==
    <<"A", "L", "A", "R", "M", ":", " ", "T", "I", "M", "E", "R", " ", "E", "X", "P",
      "I", "R", "E", "D", " ", "-", " ", "I", "N", "I", "T", "I", "A", "T", "I", "N",
      "G", " ", "A", "U", "T", "O", " ", "E", "-", "S", "T", "O", "P">>

\* "SYS: Dashboard Initialized & Loops Started"
TextInitialized ==
    <<"S", "Y", "S", ":", " ", "D", "a", "s", "h", "b", "o", "a", "r", "d", " ", "I",
      "n", "i", "t", "i", "a", "l", "i", "z", "e", "d", " ", "&", " ", "L", "o", "o",
      "p", "s", " ", "S", "t", "a", "r", "t", "e", "d">>

\* "Heartbeat": a message with none of the keywords (the else branch of log_event)
TextHeartbeat ==
    <<"H", "e", "a", "r", "t", "b", "e", "a", "t">>

\* the messages passed to log_event
LogTexts ==
    {TextConnectionLost, TextResumed, TextHighTemperature,
     TextNormal, TextPortOpen, TextSwitchingToSim,
     TextSimModeActive, TextTimerExpired, TextInitialized,
     TextHeartbeat}

\* ["ERR", "FAIL", "CRITICAL", "ALARM", "STOPPED", "HALTED", "EMERGENCY", "DANGER"]
AlarmKeywords ==
    { <<"E", "R", "R">>,
      <<"F", "A", "I", "L">>,
      <<"C", "R", "I", "T", "I", "C", "A", "L">>,
      <<"A", "L", "A", "R", "M">>,
      <<"S", "T", "O", "P", "P", "E", "D">>,
      <<"H", "A", "L", "T", "E", "D">>,
      <<"E", "M", "E", "R", "G", "E", "N", "C", "Y">>,
      <<"D", "A", "N", "G", "E", "R">> }

\* ["WARN", "HIGH", "ATTENTION"]
WarningKeywords ==
    { <<"W", "A", "R", "N">>,
      <<"H", "I", "G", "H">>,
      <<"A", "T", "T", "E", "N", "T", "I", "O", "N">> }

\* ["SYS: PORT OPEN", "RESUMED", "NORMAL", "READY", "SUCCESS"]
SuccessKeywords ==
    { <<"S", "Y", "S", ":", " ", "P", "O", "R", "T", " ", "O", "P", "E", "N">>,
      <<"R", "E", "S", "U", "M", "E", "D">>,
      <<"N", "O", "R", "M", "A", "L">>,
      <<"R", "E", "A", "D", "Y">>,
      <<"S", "U", "C", "C", "E", "S", "S">> }

\* ["OP:", "SYS:", "INIT"]
InfoKeywords ==
    { <<"O", "P", ":">>,
      <<"S", "Y", "S", ":">>,
      <<"I", "N", "I", "T">> }

LowerCase ==
    <<"a", "b", "c", "d", "e", "f", "g", "h", "i", "j", "k", "l", "m", "n", "o", "p",
      "q", "r", "s", "t", "u", "v", "w", "x", "y", "z">>

UpperCase ==
    <<"A", "B", "C", "D", "E", "F", "G", "H", "I", "J", "K", "L", "M", "N", "O", "P",
      "Q", "R", "S", "T", "U", "V", "W", "X", "Y", "Z">>

\* message.upper()
Upper(message) ==
    [i \in 1..Len(message) |->
        IF \E j \in 1..Len(LowerCase) : LowerCase[j] = message[i]
        THEN UpperCase[CHOOSE j \in 1..Len(LowerCase) : LowerCase[j] = message[i]]
        ELSE message[i]]

\* k in msg
Contains(k, msg) ==
    \E i \in 1..(Len(msg) - Len(k) + 1) : SubSeq(msg, i, i + Len(k) - 1) = k

\* any(k in msg for k in keywords)
AnyIn(keywords, msg) == \E k \in keywords : Contains(k, msg)

\* mutant: the Info keywords are looked for first
ItemColor_infoFirst(message) ==
    LET msg == Upper(message) IN
    IF AnyIn(InfoKeywords, msg) THEN "#40C4FF"
    ELSE IF AnyIn(AlarmKeywords, msg) THEN "#FF5252"
    ELSE IF AnyIn(WarningKeywords, msg) THEN "#FFD740"
    ELSE IF AnyIn(SuccessKeywords, msg) THEN "#69F0AE"
    ELSE "#B0BEC5"

\* log_event: item.setForeground(...), by the keywords found in the message
ItemColor(message) ==
    LET msg == Upper(message) IN
    IF AnyIn(AlarmKeywords, msg) THEN "#FF5252"
    ELSE IF AnyIn(WarningKeywords, msg) THEN "#FFD740"
    ELSE IF AnyIn(SuccessKeywords, msg) THEN "#69F0AE"
    ELSE IF AnyIn(InfoKeywords, msg) THEN "#40C4FF"
    ELSE "#B0BEC5"

\* the colour of each message, computed once
ColorOf == [message \in LogTexts |-> ItemColor(message)]

\* a log one entry short of its capacity: the port was opened, the loops were
\* started, and every poll since has failed
LogPrefill ==
    [i \in 1..(MAX_LOG_ENTRIES - 1) |->
        IF i = 1 THEN TextPortOpen ELSE IF i = 2 THEN TextInitialized ELSE TextConnectionLost]

\* ------------------------------------------------------------------------
\* Safety logic helpers
\* ------------------------------------------------------------------------
\* mutant: the hardware pause is left out of the emergency check
IsEmergency_softOnly == is_estopped

\* mutant: the soft E-Stop is left out of the emergency check
IsEmergency_hardOnly == is_hard_paused

\* mutant: the emergency check requires both flags
IsEmergency_both == is_estopped /\ is_hard_paused

IsEmergency == is_estopped \/ is_hard_paused

\* mutant: the critical band is entered at the warning threshold
IsCritical_atWarning(temp) == temp >= config.warning

\* mutant: the critical threshold itself is not yet critical
IsCritical_exclusive(temp) == temp > config.critical

IsCritical(temp) == temp >= config.critical

\* mutant: the warning comparison is flipped
IsWarning_flipped(temp) == temp <= config.warning

IsWarning(temp) == temp >= config.warning

\* mutant: the countdown is re-armed one second too high
Rearm_offByOne == COUNTDOWN_START_SECONDS + 1

\* mutant: the countdown is re-armed one second too low
Rearm_short == COUNTDOWN_START_SECONDS - 1

\* self.countdown_val = COUNTDOWN_START_SECONDS
Rearm == COUNTDOWN_START_SECONDS

\* if self.countdown_val > 0: self.countdown_val -= 1
Decrement(v) == IF v > 0 THEN v - 1 ELSE v

\* mutant: the timer expires one tick early
Expired_early(v) == v <= 1

\* mutant: the timer never expires at zero
Expired_never(v) == v < 0

\* if self.countdown_val <= 0
Expired(v) == v <= 0

\* mutant: the last-five-seconds boundary is exclusive
CountdownSeverity_exclusive(v) == IF v < 5 THEN "critical" ELSE "danger"

\* elif self.countdown_val <= 5: "critical" else: "danger"
CountdownSeverity(v) == IF v <= 5 THEN "critical" ELSE "danger"

\* the thresholds as the module defines them
ModuleConfig ==
    [warning |-> TEMP_THRESHOLD_WARNING, critical |-> TEMP_THRESHOLD_CRITICAL]

\* ScadaDashboard.__init__: the fields of a new dashboard
InitFields ==
    /\ current_temp = 0
    /\ is_estopped = FALSE
    /\ is_hard_paused = FALSE
    /\ runtime_seconds = 0
    /\ countdown_val = COUNTDOWN_START_SECONDS
    /\ is_countdown_active = FALSE
    /\ current_severity = "normal"
    /\ btn_is_active = FALSE
    /\ overlay_visible = FALSE
    /\ last_branch = "init"
    /\ critical_streak = 0
    /\ countdown_cancelled = FALSE
    /\ pause_trace = "none"
    /\ system_status = ""
    /\ burst = <<>>
    /\ held = [temp |-> 0, paused |-> FALSE]
    /\ write_failed = FALSE
    /\ hot_ticks = 0
    /\ resume_trace = "none"

Init ==
    /\ InitFields
    /\ serial_connection = "unset"
    /\ log = <<>>
    /\ appended = <<>>
    /\ config = ModuleConfig

\* mutant: a port that fails to open leaves the dashboard without a source
setup_serial_connection_noFallback(opened) ==
    IF ~USE_SIMULATION /\ opened THEN "Serial" ELSE "unset"

\* setup_serial: the connection left by the attempt to open the port
setup_serial_connection(opened) ==
    IF ~USE_SIMULATION /\ opened THEN "Serial" ELSE "MockSerial"

\* setup_serial: the log left by the attempt to open the port
setup_serial_log(opened) ==
    LET tried == IF USE_SIMULATION THEN log
                 ELSE IF opened THEN log_event(log, "SYS: Port Open (COM10)")
                 ELSE log_event(log, "ERR: Port Fail (COM10)")
        switched == IF USE_SIMULATION THEN tried
                    ELSE log_event(tried, "SYS: Switching to Sim (Fail)")
    IN  IF setup_serial_connection(opened) = "Serial" THEN tried
        ELSE IF USE_SIMULATION THEN log_event(switched, "SYS: Sim Mode Active")
        ELSE switched

\* transition_to_dashboard -> start_system_logic: open the port, start the timers
start_system_logic ==
    /\ serial_connection = "unset"
    /\ \E opened \in BOOLEAN :
          /\ serial_connection' = setup_serial_connection(opened)
          /\ log' = log_event(setup_serial_log(opened),
                              "SYS: Dashboard Initialized & Loops Started")
    /\ last_branch' = "start"
    /\ UNCHANGED <<current_temp, is_estopped, is_hard_paused, runtime_seconds,
                   countdown_val, is_countdown_active, current_severity,
                   btn_is_active, overlay_visible, critical_streak,
                   countdown_cancelled, pause_trace>>
    /\ UNCHANGED <<system_status, burst, held>>
    /\ write_failed' = FALSE
    /\ UNCHANGED <<config, hot_ticks, appended, resume_trace>>

\* mutant: a resume that forgets to reset the countdown state
handle_estop_toggle_noReset(is_stopped, cv, active, sev, l) ==
    /\ is_estopped' = is_stopped
    /\ log' = log_event(l, IF is_stopped THEN "ALARM: E-STOP HALTED" ELSE "OP: E-STOP RESUMED")
    /\ overlay_visible' = is_stopped
    /\ countdown_val' = cv
    /\ is_countdown_active' = active
    /\ current_severity' = sev
    /\ btn_is_active' = is_stopped

\* mutant: a stop resets the countdown state as a resume does
handle_estop_toggle_resetAlways(is_stopped, cv, active, sev, l) ==
    /\ is_estopped' = is_stopped
    /\ log' = log_event(l, IF is_stopped THEN "ALARM: E-STOP HALTED" ELSE "OP: E-STOP RESUMED")
    /\ overlay_visible' = is_stopped
    /\ countdown_val' = Rearm
    /\ is_countdown_active' = FALSE
    /\ current_severity' = "normal"
    /\ btn_is_active' = is_stopped

\* mutant: the button's flag is not brought in line with the stop of the expired timer
handle_estop_toggle_noSync(is_stopped, cv, active, sev, l) ==
    /\ is_estopped' = is_stopped
    /\ log' = log_event(l, IF is_stopped THEN "ALARM: E-STOP HALTED" ELSE "OP: E-STOP RESUMED")
    /\ overlay_visible' = is_stopped
    /\ countdown_val' = IF is_stopped THEN cv ELSE Rearm
    /\ is_countdown_active' = (is_stopped /\ active)
    /\ current_severity' = IF is_stopped THEN sev ELSE "normal"
    /\ btn_is_active' = IF is_stopped /\ Expired(cv) THEN btn_is_active ELSE is_stopped

\* handle_estop_toggle(is_stopped), entered with the countdown, severity and log
\* values cv, active, sev, l.  The command byte written to the port changes no
\* field of the dashboard, whether the write succeeds or raises: a write that
\* raises is printed to the console and nothing else (the caller records it in
\* write_failed).
handle_estop_toggle(is_stopped, cv, active, sev, l) ==
    /\ is_estopped' = is_stopped
    /\ IF is_stopped
       THEN /\ log' = log_event(l, "ALARM: E-STOP HALTED")
            /\ overlay_visible' = TRUE
            /\ countdown_val' = cv
            /\ is_countdown_active' = active
            /\ current_severity' = sev
       ELSE /\ log' = log_event(l, "OP: E-STOP RESUMED")
            /\ overlay_visible' = FALSE
            /\ countdown_val' = Rearm
            /\ is_countdown_active' = FALSE
            /\ current_severity' = "normal"
    /\ btn_is_active' = is_stopped

\* EmergencyStopButton.mousePressEvent: the operator clicks the E-Stop button
\* (not reachable while the overlay covers the window)
estop_click ==
    /\ serial_connection # "unset"
    /\ ~overlay_visible
    /\ handle_estop_toggle(~btn_is_active, countdown_val, is_countdown_active,
                           current_severity, log)
    /\ Len(log') <= MaxLogged
    /\ last_branch' = IF ~btn_is_active THEN "estop_on" ELSE "estop_off"
    /\ critical_streak' = 0
    /\ countdown_cancelled' = FALSE
    /\ pause_trace' = "none"
    /\ UNCHANGED <<serial_connection, current_temp, is_hard_paused, runtime_seconds>>
    /\ UNCHANGED <<system_status, burst, held>>
    /\ \E raised \in BOOLEAN : write_failed' = (raised /\ serial_connection = "Serial")
    /\ hot_ticks' = IF btn_is_active THEN 0 ELSE hot_ticks
    /\ resume_trace' = IF btn_is_active THEN "resumed" ELSE "none"
    /\ UNCHANGED <<config, appended>>

\* mutant: acknowledging the overlay releases the soft E-Stop as well
overlay_click_resumes ==
    /\ overlay_visible
    /\ overlay_visible' = FALSE
    /\ is_estopped' = FALSE
    /\ btn_is_active' = FALSE
    /\ last_branch' = "ack"
    /\ countdown_cancelled' = FALSE
    /\ UNCHANGED <<serial_connection, current_temp, is_hard_paused,
                   runtime_seconds, countdown_val, is_countdown_active,
                   current_severity, log, critical_streak, pause_trace>>
    /\ UNCHANGED <<system_status, burst, held>>
    /\ write_failed' = FALSE
    /\ UNCHANGED <<config, hot_ticks, appended, resume_trace>>

\* EmergencyOverlay.mousePressEvent: the operator acknowledges the overlay
overlay_click ==
    /\ overlay_visible
    /\ overlay_visible' = FALSE
    /\ last_branch' = "ack"
    /\ countdown_cancelled' = FALSE
    /\ UNCHANGED <<serial_connection, current_temp, is_estopped, is_hard_paused,
                   runtime_seconds, countdown_val, is_countdown_active,
                   current_severity, log, btn_is_active, critical_streak, pause_trace>>
    /\ UNCHANGED <<system_status, burst, held>>
    /\ write_failed' = FALSE
    /\ UNCHANGED <<config, hot_ticks, appended, resume_trace>>

\* update_seconds_logic: the 1 Hz logic tick
update_seconds_logic ==
    /\ serial_connection # "unset"
    /\ runtime_seconds < MaxRuntime
    /\ IF IsEmergency
       THEN /\ last_branch' = "emergency"
            /\ critical_streak' = IF is_estopped THEN critical_streak ELSE 0
            /\ countdown_cancelled' = FALSE
            /\ pause_trace' = IF is_hard_paused /\ ~is_estopped THEN "held" ELSE "none"
            /\ UNCHANGED <<is_estopped, runtime_seconds, countdown_val,
                           is_countdown_active, current_severity, log,
                           btn_is_active, overlay_visible>>
       ELSE /\ runtime_seconds' = runtime_seconds + 1
            /\ pause_trace' = IF pause_trace = "cleared" THEN "resumed" ELSE "none"
            /\ IF IsCritical(current_temp)
               THEN LET armed == IF is_countdown_active THEN countdown_val ELSE Rearm
                        cv == Decrement(armed)
                    IN  /\ countdown_cancelled' = FALSE
                        /\ critical_streak' =
                               IF critical_streak > 0 \/ ~is_countdown_active
                               THEN critical_streak + 1 ELSE 0
                        /\ IF Expired(cv)
                           THEN /\ handle_estop_toggle(TRUE, cv, TRUE, "critical",
                                      log_event(log, "ALARM: TIMER EXPIRED - INITIATING AUTO E-STOP"))
                                /\ Len(log') <= MaxLogged
                                /\ last_branch' = "expired"
                           ELSE /\ countdown_val' = cv
                                /\ is_countdown_active' = TRUE
                                /\ current_severity' = CountdownSeverity(cv)
                                /\ last_branch' = "countdown"
                                /\ UNCHANGED <<is_estopped, log, btn_is_active,
                                               overlay_visible>>
               ELSE /\ current_severity' = IF IsWarning(current_temp) THEN "warning" ELSE "normal"
                    /\ is_countdown_active' = FALSE
                    /\ countdown_val' = Rearm
                    /\ last_branch' = IF IsWarning(current_temp) THEN "warning" ELSE "normal"
                    /\ critical_streak' = 0
                    /\ countdown_cancelled' = (is_countdown_active /\ countdown_val > 0)
                    /\ UNCHANGED <<is_estopped, log, btn_is_active, overlay_visible>>
    /\ UNCHANGED <<serial_connection, current_temp, is_hard_paused>>
    /\ UNCHANGED <<system_status, burst, held>>
    /\ \E raised \in BOOLEAN :
          write_failed' = (raised /\ last_branch' = "expired" /\ serial_connection = "Serial")
    /\ hot_ticks' = IF IsEmergency THEN hot_ticks
                    ELSE IF ~IsCritical(current_temp) THEN 0
                    ELSE IF hot_ticks < COUNTDOWN_START_SECONDS THEN hot_ticks + 1
                    ELSE hot_ticks
    /\ resume_trace' = IF IsEmergency THEN resume_trace
                       ELSE IF resume_trace = "resumed" THEN "ticked"
                       ELSE "none"
    /\ UNCHANGED <<config, appended>>

\* history only: a reading clears a hard pause that a tick has seen, softEstop being false
PauseTraceAfterPoll(paused) ==
    IF pause_trace = "held" /\ is_hard_paused /\ ~paused /\ ~is_estopped THEN "cleared"
    ELSE IF pause_trace = "held" /\ paused THEN "held"
    ELSE IF pause_trace = "cleared" /\ ~paused THEN "cleared"
    ELSE "none"

\* mutant: a failed read makes the dashboard give up the port for the simulator
read_serial_port_dropPort ==
    /\ serial_connection = "Serial"
    /\ \/ /\ log' = log_event(log, "ERR: Connection Lost")
          /\ Len(log') <= MaxLogged
          /\ last_branch' = "poll_failed"
          /\ serial_connection' = "MockSerial"
          /\ UNCHANGED <<current_temp, is_hard_paused, critical_streak, pause_trace>>
       \/ \E r \in PollOutcomes[current_temp, is_hard_paused] :
             /\ current_temp' = r.temp
             /\ is_hard_paused' = r.paused
             /\ critical_streak' = IF r.paused THEN 0 ELSE critical_streak
             /\ pause_trace' = PauseTraceAfterPoll(r.paused)
             /\ last_branch' = "poll"
             /\ UNCHANGED <<log, serial_connection>>
    /\ countdown_cancelled' = FALSE
    /\ UNCHANGED <<is_estopped, runtime_seconds, countdown_val,
                   is_countdown_active, current_severity, btn_is_active, overlay_visible>>
    /\ UNCHANGED <<system_status, burst, held>>
    /\ write_failed' = FALSE
    /\ UNCHANGED <<config, hot_ticks, appended, resume_trace>>

\* read_serial_data on a serial.Serial port: the burst in the buffer, or an I/O failure
read_serial_port ==
    /\ serial_connection = "Serial"
    /\ \/ /\ log' = log_event(log, "ERR: Connection Lost")
          /\ Len(log') <= MaxLogged
          /\ last_branch' = "poll_failed"
          /\ UNCHANGED <<current_temp, is_hard_paused, critical_streak, pause_trace>>
       \/ \E r \in PollOutcomes[current_temp, is_hard_paused] :
             /\ current_temp' = r.temp
             /\ is_hard_paused' = r.paused
             /\ critical_streak' = IF r.paused THEN 0 ELSE critical_streak
             /\ pause_trace' = PauseTraceAfterPoll(r.paused)
             /\ last_branch' = "poll"
             /\ UNCHANGED log
    /\ countdown_cancelled' = FALSE
    /\ UNCHANGED <<serial_connection, is_estopped, runtime_seconds, countdown_val,
                   is_countdown_active, current_severity, btn_is_active, overlay_visible>>
    /\ UNCHANGED <<system_status, burst, held>>
    /\ write_failed' = FALSE
    /\ UNCHANGED <<config, hot_ticks, appended, resume_trace>>

\* mutant: a frame of a running device releases the soft E-Stop
read_serial_mock_clearsStop ==
    /\ serial_connection = "MockSerial"
    /\ \E temp \in MockTemps :
          /\ current_temp' = temp
          /\ is_hard_paused' = FALSE
    /\ is_estopped' = FALSE
    /\ last_branch' = "poll"
    /\ countdown_cancelled' = FALSE
    /\ pause_trace' = PauseTraceAfterPoll(FALSE)
    /\ UNCHANGED <<serial_connection, runtime_seconds, countdown_val,
                   is_countdown_active, current_severity, log, btn_is_active,
                   overlay_visible, critical_streak>>
    /\ UNCHANGED <<system_status, burst, held>>
    /\ write_failed' = FALSE
    /\ UNCHANGED <<config, hot_ticks, appended, resume_trace>>

\* mutant: a frame with a critical temperature starts the countdown by itself
read_serial_mock_armsCountdown ==
    /\ serial_connection = "MockSerial"
    /\ \E temp \in MockTemps :
          /\ current_temp' = temp
          /\ is_hard_paused' = FALSE
          /\ is_countdown_active' = (is_countdown_active \/ temp >= config.critical)
    /\ last_branch' = "poll"
    /\ countdown_cancelled' = FALSE
    /\ pause_trace' = PauseTraceAfterPoll(FALSE)
    /\ UNCHANGED <<serial_connection, is_estopped, runtime_seconds, countdown_val,
                   current_severity, log, btn_is_active,
                   overlay_visible, critical_streak>>
    /\ UNCHANGED <<system_status, burst, held>>
    /\ write_failed' = FALSE
    /\ UNCHANGED <<config, hot_ticks, appended, resume_trace>>

\* read_serial_data on MockSerial: one synthesized frame "0,<temp>,1"
read_serial_mock ==
    /\ serial_connection = "MockSerial"
    /\ \E temp \in MockTemps :
          /\ current_temp' = temp
          /\ is_hard_paused' = FALSE
    /\ last_branch' = "poll"
    /\ countdown_cancelled' = FALSE
    /\ pause_trace' = PauseTraceAfterPoll(FALSE)
    /\ UNCHANGED <<serial_connection, is_estopped, runtime_seconds, countdown_val,
                   is_countdown_active, current_severity, log, btn_is_active,
                   overlay_visible, critical_streak>>
    /\ UNCHANGED <<system_status, burst, held>>
    /\ write_failed' = FALSE
    /\ UNCHANGED <<config, hot_ticks, appended, resume_trace>>

\* mutant: the hardware pause is looked at before the soft E-Stop
determine_system_state_hardFirst(temp) ==
    IF is_hard_paused THEN "FAN STOPPED"
    ELSE IF is_estopped THEN "EMERGENCY STOP"
    ELSE IF temp < config.warning THEN "NORMAL"
    ELSE IF temp < config.critical THEN "HIGH TEMPERATURE"
    ELSE "DANGER"

\* determine_system_state: the status text shown for the current state
determine_system_state(temp) ==
    IF is_estopped THEN "EMERGENCY STOP"
    ELSE IF is_hard_paused THEN "FAN STOPPED"
    ELSE IF temp < config.warning THEN "NORMAL"
    ELSE IF temp < config.critical THEN "HIGH TEMPERATURE"
    ELSE "DANGER"

\* f"STATUS: {status_text}"
StatusMessage(status_text) ==
    CASE status_text = "EMERGENCY STOP" -> "STATUS: EMERGENCY STOP"
      [] status_text = "FAN STOPPED" -> "STATUS: FAN STOPPED"
      [] status_text = "NORMAL" -> "STATUS: NORMAL"
      [] status_text = "HIGH TEMPERATURE" -> "STATUS: HIGH TEMPERATURE"
      [] status_text = "DANGER" -> "STATUS: DANGER"

\* update_animation: the ~60 Hz presentation callback (the turbine angle and the
\* widget styles it also sets are not part of the state)
update_animation ==
    /\ serial_connection # "unset"
    /\ LET status_text == determine_system_state(current_temp)
       IN  /\ system_status' = status_text
           /\ log' = IF status_text # system_status /\ system_status # ""
                     THEN log_event(log, StatusMessage(status_text))
                     ELSE log
    /\ Len(log') <= MaxLogged
    /\ last_branch' = "animation"
    /\ countdown_cancelled' = FALSE
    /\ UNCHANGED <<serial_connection, current_temp, is_estopped, is_hard_paused,
                   runtime_seconds, countdown_val, is_countdown_active,
                   current_severity, btn_is_active, overlay_visible,
                   critical_streak, pause_trace, burst, held>>
    /\ write_failed' = FALSE
    /\ UNCHANGED <<config, hot_ticks, appended, resume_trace>>

\* mutant: a poll that takes no reading from its burst says so in the log
read_serial_lines_logDiscard ==
    /\ serial_connection = "Serial"
    /\ \E lines \in Bursts :
          LET r == ProcessLines(lines, Len(lines), current_temp, is_hard_paused)
          IN  /\ burst' = lines
              /\ held' = [temp |-> current_temp, paused |-> is_hard_paused]
              /\ current_temp' = r.temp
              /\ is_hard_paused' = r.paused
              /\ critical_streak' = IF r.paused THEN 0 ELSE critical_streak
              /\ pause_trace' = PauseTraceAfterPoll(r.paused)
              /\ log' = IF lines # <<>> /\ r = [temp |-> current_temp, paused |-> is_hard_paused]
                        THEN log_event(log, "ERR: Bad Frame")
                        ELSE log
    /\ Len(log') <= MaxLogged
    /\ last_branch' = "poll"
    /\ countdown_cancelled' = FALSE
    /\ UNCHANGED <<serial_connection, is_estopped, runtime_seconds, countdown_val,
                   is_countdown_active, current_severity, btn_is_active,
                   overlay_visible, system_status>>
    /\ write_failed' = FALSE
    /\ UNCHANGED <<config, hot_ticks, appended, resume_trace>>

\* read_serial_data on a serial.Serial port whose read succeeds, the burst it read
\* and the reading it replaced kept for inspection
read_serial_lines ==
    /\ serial_connection = "Serial"
    /\ \E lines \in Bursts :
          LET r == ProcessLines(lines, Len(lines), current_temp, is_hard_paused)
          IN  /\ burst' = lines
              /\ held' = [temp |-> current_temp, paused |-> is_hard_paused]
              /\ current_temp' = r.temp
              /\ is_hard_paused' = r.paused
              /\ critical_streak' = IF r.paused THEN 0 ELSE critical_streak
              /\ pause_trace' = PauseTraceAfterPoll(r.paused)
    /\ last_branch' = "poll"
    /\ countdown_cancelled' = FALSE
    /\ UNCHANGED <<serial_connection, is_estopped, runtime_seconds, countdown_val,
                   is_countdown_active, current_severity, log, btn_is_active,
                   overlay_visible, system_status>>
    /\ write_failed' = FALSE
    /\ UNCHANGED <<config, hot_ticks, appended, resume_trace>>

Next ==
    \/ start_system_logic
    \/ read_serial_port
    \/ read_serial_mock
    \/ update_seconds_logic
    \/ estop_click
    \/ overlay_click

Spec == Init /\ [][Next]_vars

\* the dashboard with its presentation callback, over a few logic ticks
NextDisplay ==
    \/ start_system_logic
    \/ read_serial_port
    \/ read_serial_mock
    \/ (runtime_seconds < MaxDisplayRuntime /\ update_seconds_logic)
    \/ estop_click
    \/ overlay_click
    \/ update_animation

SpecDisplay == Init /\ [][NextDisplay]_vars

\* the telemetry poll alone, burst by burst
NextParse ==
    \/ start_system_logic
    \/ read_serial_lines

SpecParse == Init /\ [][NextParse]_vars

\* a poll of the port whose read succeeds
read_serial_port_ok == read_serial_port /\ log' = log

\* the operator stops and never resumes
estop_click_stop == ~btn_is_active /\ estop_click

\* the logic tick of the 1 Hz timer; a tick below the critical band runs only while
\* a whole countdown after it still fits into the runtime bound
update_seconds_logic_timer ==
    /\ \/ IsEmergency
       \/ IsCritical(current_temp)
       \/ runtime_seconds + 1 + COUNTDOWN_START_SECONDS <= MaxRuntime
    /\ update_seconds_logic

\* the dashboard whose logic timer keeps firing and whose operator never resumes
NextLive ==
    \/ start_system_logic
    \/ read_serial_port_ok
    \/ read_serial_mock
    \/ update_seconds_logic_timer
    \/ estop_click_stop
    \/ overlay_click

SpecLive == Init /\ [][NextLive]_vars /\ WF_vars(update_seconds_logic_timer)

\* the values either threshold constant may be given
ThresholdValues == {TEMP_THRESHOLD_WARNING, TEMP_THRESHOLD_CRITICAL}

\* a dashboard of a module whose two threshold constants hold any of these values;
\* __init__ reads neither of them
InitConfig ==
    /\ InitFields
    /\ serial_connection = "unset"
    /\ log = <<>>
    /\ appended = <<>>
    /\ config \in [warning : ThresholdValues, critical : ThresholdValues]

\* the polls and the logic tick under each threshold configuration
NextConfig ==
    \/ start_system_logic
    \/ read_serial_port
    \/ read_serial_mock
    \/ (runtime_seconds < MaxConfigRuntime /\ update_seconds_logic)

SpecConfig == InitConfig /\ [][NextConfig]_vars

\* a dashboard on an open port whose log is about to fill
InitLog ==
    /\ InitFields
    /\ serial_connection = "Serial"
    /\ log = LogPrefill
    /\ appended = [i \in 1..Len(LogPrefill) |->
                      [message |-> LogPrefill[i], color |-> ColorOf[LogPrefill[i]]]]
    /\ config = ModuleConfig

\* a handler calls log_event(message)
log_event_call ==
    /\ Len(appended) < Len(LogPrefill) + MaxAppends
    /\ \E message \in LogTexts :
          /\ log' = log_event(log, message)
          /\ appended' = Append(appended, [message |-> message, color |-> ColorOf[message]])
    /\ last_branch' = "log"
    /\ write_failed' = FALSE
    /\ UNCHANGED <<serial_connection, current_temp, is_estopped, is_hard_paused,
                   runtime_seconds, countdown_val, is_countdown_active,
                   current_severity, btn_is_active, overlay_visible, critical_streak,
                   countdown_cancelled, pause_trace, system_status, burst, held,
                   config, hot_ticks, resume_trace>>

\* the operator log alone, append by append
NextLog == log_event_call

SpecLog == InitLog /\ [][NextLog]_vars

\* ------------------------------------------------------------------------
\* Properties
\* ------------------------------------------------------------------------
NonEmergencyBranches == {"expired", "countdown", "warning", "normal"}

TickBranches == NonEmergencyBranches \cup {"emergency"}

MsgTimerExpired == "ALARM: TIMER EXPIRED - INITIATING AUTO E-STOP"

MsgHalted == "ALARM: E-STOP HALTED"

MsgResumed == "OP: E-STOP RESUMED"

\* C1: starting with no emergency flag and the countdown idle, a run of consecutive
\* logic ticks that each observe a critical temperature, with no E-Stop command and
\* no hard pause in between, auto-sets softEstop on its COUNTDOWN_START-th tick and
\* on none of the earlier ones.
C1_AutoEstopOnLastTick ==
    /\ critical_streak \in 0..COUNTDOWN_START_SECONDS
    /\ (critical_streak \in 1..(COUNTDOWN_START_SECONDS - 1) =>
          ~is_estopped /\ countdown_val = COUNTDOWN_START_SECONDS - critical_streak)
    /\ (critical_streak = COUNTDOWN_START_SECONDS =>
          is_estopped /\ countdown_val = 0 /\ \E i \in 1..Len(log) : log[i] = MsgTimerExpired)

C1_Witness ==
    /\ critical_streak = COUNTDOWN_START_SECONDS
    /\ last_branch = "expired"
    /\ is_estopped

\* C2: the tick on which the countdown reaches 0 sets the severity to critical, sets
\* softEstop, appends the alarm entries to the log and leaves the rest of its
\* evaluation undone; the countdown stands at 0 only while softEstop is set, so the
\* tick that follows (the operator not having resumed) takes the emergency branch
\* (runtime not incremented, countdown not decremented).
C2_ExpiryTick ==
    [][(countdown_val' = 0 => is_estopped') /\ (update_seconds_logic =>
         /\ (countdown_val # 0 /\ countdown_val' = 0 =>
               /\ current_severity' = "critical"
               /\ is_estopped'
               /\ is_countdown_active'
               /\ Len(log') = Len(log) + 2
               /\ SubSeq(log', 1, Len(log)) = log
               /\ log'[Len(log) + 1] = MsgTimerExpired
               /\ log'[Len(log) + 2] = MsgHalted)
         /\ (countdown_val = 0 => UNCHANGED <<runtime_seconds, countdown_val>>))]_vars

C2_Witness ==
    /\ last_branch = "emergency"
    /\ countdown_val = 0
    /\ is_estopped
    /\ current_severity = "critical"

\* C3 as stated: after every logic tick the countdown is active exactly when the
\* temperature is critical and neither emergency flag is set.
C3_Original ==
    last_branch \in TickBranches =>
        (is_countdown_active <=>
            (current_temp >= TEMP_THRESHOLD_CRITICAL /\ ~is_estopped /\ ~is_hard_paused))

\* C3 amended: after every logic tick that began with both emergency flags clear,
\* the countdown is active exactly when the temperature is critical (the tick that
\* fires the auto E-Stop included).
C3_ActiveIffCriticalAfterRunningTick ==
    last_branch \in NonEmergencyBranches =>
        (is_countdown_active <=> current_temp >= TEMP_THRESHOLD_CRITICAL)

C3_Witness ==
    /\ last_branch = "expired"
    /\ is_countdown_active
    /\ is_estopped
    /\ current_temp >= TEMP_THRESHOLD_CRITICAL

\* C4 as stated: a tick that starts in emergency leaves the countdown inactive and
\* at COUNTDOWN_START.
C4_Original ==
    last_branch = "emergency" =>
        (~is_countdown_active /\ countdown_val = COUNTDOWN_START_SECONDS)

\* C4 amended: a tick that starts with softEstop or hardPaused set leaves
\* countdownActive and countdownRemaining exactly as they were before the tick.
C4_EmergencyTickFreezesCountdown ==
    [][update_seconds_logic /\ (is_estopped \/ is_hard_paused) =>
         UNCHANGED <<is_countdown_active, countdown_val>>]_vars

C4_Witness ==
    /\ last_branch = "emergency"
    /\ is_hard_paused
    /\ ~is_estopped
    /\ is_countdown_active
    /\ countdown_val \in 1..(COUNTDOWN_START_SECONDS - 1)

\* C5: in every reachable state 0 <= countdownRemaining <= COUNTDOWN_START.
C5_CountdownInRange == countdown_val \in 0..COUNTDOWN_START_SECONDS

C5_Witness == countdown_val = 0 /\ last_branch = "poll"

\* C6: a logic tick adds exactly 1 to runtimeSeconds when both emergency flags are
\* clear at its start, and leaves runtimeSeconds unchanged when either is set.
C6_RuntimeStep ==
    [][update_seconds_logic =>
         runtime_seconds' = IF is_estopped \/ is_hard_paused
                            THEN runtime_seconds ELSE runtime_seconds + 1]_vars

C6_Witness ==
    /\ last_branch = "emergency"
    /\ runtime_seconds > 0
    /\ is_hard_paused

\* C7: a non-emergency tick at a critical temperature that does not expire the
\* countdown leaves it one below its value before the tick (COUNTDOWN_START - 1 when
\* it was idle), with severity danger above 5 and critical from 5 down to 1.
C7_CountdownStep ==
    [][(/\ update_seconds_logic
        /\ ~is_estopped /\ ~is_hard_paused
        /\ current_temp >= TEMP_THRESHOLD_CRITICAL
        /\ ~is_estopped') =>
         /\ countdown_val' = (IF is_countdown_active THEN countdown_val
                                                     ELSE COUNTDOWN_START_SECONDS) - 1
         /\ countdown_val' >= 1
         /\ current_severity' = IF countdown_val' > 5 THEN "danger" ELSE "critical"]_vars

C7_Witness ==
    /\ last_branch = "countdown"
    /\ countdown_val = 5
    /\ current_severity = "critical"

\* C8: a non-emergency tick that finds a running countdown (remaining > 0) and a
\* temperature below critical leaves the countdown idle at COUNTDOWN_START and does
\* not set softEstop.
C8_DropCancelsCountdown ==
    [][(/\ update_seconds_logic
        /\ ~is_estopped /\ ~is_hard_paused
        /\ is_countdown_active /\ countdown_val > 0
        /\ current_temp < TEMP_THRESHOLD_CRITICAL) =>
         /\ ~is_countdown_active'
         /\ countdown_val' = COUNTDOWN_START_SECONDS
         /\ ~is_estopped']_vars

C8_Witness ==
    /\ countdown_cancelled
    /\ ~is_countdown_active
    /\ countdown_val = COUNTDOWN_START_SECONDS
    /\ ~is_estopped

\* the severity the threshold evaluation gives a temperature
BandSeverities(temp) ==
    IF temp < TEMP_THRESHOLD_WARNING THEN {"normal"}
    ELSE IF temp < TEMP_THRESHOLD_CRITICAL THEN {"warning"}
    ELSE {"danger", "critical"}

\* C9: while hardPaused is set every tick takes the emergency branch whatever the
\* temperature (runtime, countdown and softEstop untouched); once a reading has
\* cleared hardPaused with softEstop false, the next tick increments the runtime and
\* evaluates the thresholds on the current temperature.
C9_HardPauseGatesTick ==
    [][update_seconds_logic =>
         /\ (is_hard_paused =>
               UNCHANGED <<runtime_seconds, countdown_val, is_countdown_active,
                           is_estopped, current_severity, log>>)
         /\ (pause_trace = "cleared" =>
               /\ ~is_hard_paused /\ ~is_estopped
               /\ runtime_seconds' = runtime_seconds + 1
               /\ current_severity' \in BandSeverities(current_temp)
               /\ is_countdown_active' = (current_temp >= TEMP_THRESHOLD_CRITICAL))]_vars

C9_Witness ==
    /\ pause_trace = "resumed"
    /\ last_branch = "countdown"
    /\ runtime_seconds > 1

\* C10: applying setSoftEstop(false) leaves softEstop false and the countdown idle at
\* COUNTDOWN_START and appends the resumption entry, whatever the countdown was
\* before (0 after an auto E-Stop included).
C10_ResumeResetsCountdown ==
    [][(estop_click /\ btn_is_active) =>
         /\ ~is_estopped'
         /\ ~is_countdown_active'
         /\ countdown_val' = COUNTDOWN_START_SECONDS
         /\ log' = Append(log, MsgResumed)]_vars

C10_Witness ==
    /\ last_branch = "estop_off"
    /\ Len(log) >= 3
    /\ log[Len(log) - 2] = MsgTimerExpired
    /\ log[Len(log) - 1] = MsgHalted
    /\ log[Len(log)] = MsgResumed
    /\ countdown_val = COUNTDOWN_START_SECONDS
    /\ ~is_countdown_active
    /\ ~is_estopped

\* C11: softEstop and hardPaused are independent: a poll leaves softEstop unchanged,
\* an E-Stop toggle (operator or auto) leaves hardPaused unchanged, and a tick takes
\* the emergency branch (runtime frozen) exactly when at least one of the two is set.
C11_IndependentFlags ==
    [][/\ (read_serial_port \/ read_serial_mock => is_estopped' = is_estopped)
       /\ (estop_click => is_hard_paused' = is_hard_paused /\ is_estopped' = ~is_estopped)
       /\ (update_seconds_logic =>
             /\ is_hard_paused' = is_hard_paused
             /\ (runtime_seconds' = runtime_seconds <=> (is_estopped \/ is_hard_paused)))]_vars

C11_Witness ==
    /\ last_branch = "estop_off"
    /\ is_hard_paused
    /\ ~is_estopped
    /\ runtime_seconds > 0

\* C12: a tick with no emergency flag set and a temperature below the warning
\* threshold leaves severity normal and the countdown idle at COUNTDOWN_START.
C12_NormalBand ==
    [][(/\ update_seconds_logic
        /\ ~is_estopped /\ ~is_hard_paused
        /\ current_temp < TEMP_THRESHOLD_WARNING) =>
         /\ current_severity' = "normal"
         /\ ~is_countdown_active'
         /\ countdown_val' = COUNTDOWN_START_SECONDS]_vars

C12_Witness ==
    /\ last_branch = "normal"
    /\ current_temp = 30
    /\ current_severity = "normal"
    /\ ~is_countdown_active
    /\ runtime_seconds > 1

get_temp_state_key(temp) ==
    IF temp < config.warning THEN "norm"
    ELSE IF temp < config.critical THEN "warn"
    ELSE "dang"

\* C14 as stated, for the states that agree with the initial state on temperature
\* band, countdown and flags: the initial state has severity normal, so if severity
\* were a function of those values every such state would have severity normal.
C14_Original ==
    (/\ get_temp_state_key(current_temp) = "norm"
     /\ ~is_countdown_active
     /\ countdown_val = COUNTDOWN_START_SECONDS
     /\ ~is_estopped /\ ~is_hard_paused) => current_severity = "normal"

\* C14 amended: severity is a stored field; a non-emergency tick sets it from that
\* tick's temperature band and countdown value alone, and a resume sets it to normal.
C14_SeverityWhereRecomputed ==
    /\ (last_branch \in NonEmergencyBranches =>
          current_severity =
             IF current_temp < TEMP_THRESHOLD_WARNING THEN "normal"
             ELSE IF current_temp < TEMP_THRESHOLD_CRITICAL THEN "warning"
             ELSE IF countdown_val <= 5 THEN "critical" ELSE "danger")
    /\ (last_branch = "estop_off" => current_severity = "normal")

C14_Witness ==
    /\ last_branch = "estop_off"
    /\ current_temp >= TEMP_THRESHOLD_CRITICAL
    /\ current_severity = "normal"
    /\ \E i \in 1..Len(log) : log[i] = MsgTimerExpired

\* C15 as stated: no step other than a logic tick changes runtimeSeconds or
\* countdownRemaining.
C15_Original ==
    [][~update_seconds_logic => UNCHANGED <<runtime_seconds, countdown_val>>]_vars

\* C15 amended: runtimeSeconds changes only inside a logic tick; countdownRemaining
\* changes only inside a logic tick or when the operator's resume is applied, which
\* resets it to COUNTDOWN_START at once; polls, presentation callbacks and the
\* operator's stop change neither.
C15_ChangedByTickOrResume ==
    [][~update_seconds_logic =>
         /\ runtime_seconds' = runtime_seconds
         /\ \/ countdown_val' = countdown_val
            \/ /\ estop_click
               /\ is_estopped /\ ~is_estopped'
               /\ countdown_val' = COUNTDOWN_START_SECONDS]_vars

C15_Witness ==
    /\ last_branch = "animation"
    /\ system_status = "EMERGENCY STOP"
    /\ is_estopped
    /\ is_countdown_active
    /\ countdown_val = COUNTDOWN_START_SECONDS - 2
    /\ runtime_seconds = 2

\* ------------------------------------------------------------------------
\* Properties of the poll, over the burst it read
\* ------------------------------------------------------------------------
Reading == [temp |-> current_temp, paused |-> is_hard_paused]

\* "id,temperature,flag" with a numeric temperature and flag
WellFormed(line) ==
    Len(line) >= 3 /\ ~HasError(line) /\ IsFloat(line[2]) /\ IsInt(line[3])

ReadingOf(line) == [temp |-> FloatOf(line[2]), paused |-> (IntOf(line[3]) = 0)]

Blank(line) == line = <<"">>

\* three fields, numeric temperature, non-numeric flag
BadFlag(line) ==
    Len(line) >= 3 /\ ~HasError(line) /\ IsFloat(line[2]) /\ ~IsInt(line[3])

\* fewer than three fields, or a temperature or flag that is not a number
Malformed(line) == ~Blank(line) /\ ~HasError(line) /\ ~WellFormed(line)

\* fewer than three fields, or a temperature that is not a number
Unparsable(line) == Len(line) < 3 \/ ~IsFloat(line[2])

\* C16 as stated: a burst holding a line with a numeric temperature and a
\* non-numeric flag, and no line that parses, leaves temperature and hardPaused as
\* they were before the poll.
C16_Original ==
    (/\ \E i \in 1..Len(burst) : BadFlag(burst[i])
     /\ \A i \in 1..Len(burst) : ~WellFormed(burst[i])) => Reading = held

\* C17 as stated: a burst whose most recent non-empty line contains ERROR leaves
\* temperature and hardPaused as they were before the poll, whatever the older lines.
C17_Original ==
    (\E i \in 1..Len(burst) :
        /\ HasError(burst[i])
        /\ \A j \in (i + 1)..Len(burst) : Blank(burst[j])) => Reading = held

\* C18: after a poll whose burst holds only well-formed lines the reading is that of
\* the last line, whatever the earlier lines were; a poll that reads nothing
\* afterwards leaves the reading as it is (no earlier line is kept for later).
C18_LastLineWins ==
    /\ (burst # <<>> /\ (\A i \in 1..Len(burst) : WellFormed(burst[i])) =>
          Reading = ReadingOf(burst[Len(burst)]))
    /\ (burst = <<>> => Reading = held)

C18_Witness ==
    /\ Len(burst) = 2
    /\ WellFormed(burst[1]) /\ WellFormed(burst[2])
    /\ ReadingOf(burst[1]).temp # ReadingOf(burst[2]).temp
    /\ ReadingOf(burst[1]).paused # ReadingOf(burst[2]).paused
    /\ Reading = ReadingOf(burst[2])
    /\ held.temp # current_temp

\* C19: when the newest non-empty lines of the burst are malformed and an older line
\* is well-formed, the reading after the poll is that of the newest well-formed
\* line, temperature and hardPaused both.
C19_NewestWellFormedWins ==
    \A k \in 1..Len(burst) :
        (/\ WellFormed(burst[k])
         /\ \A j \in (k + 1)..Len(burst) : Malformed(burst[j]) \/ Blank(burst[j])
         /\ \E j \in (k + 1)..Len(burst) : Malformed(burst[j])) => Reading = ReadingOf(burst[k])

C19_Witness ==
    /\ burst = << <<"0", "30", "0">>, <<"0", "50", "x">> >>
    /\ held = [temp |-> 49, paused |-> FALSE]
    /\ Reading = [temp |-> 30, paused |-> TRUE]

\* C20: a poll whose burst holds only lines with fewer than three fields or a
\* non-numeric temperature leaves temperature and hardPaused unchanged.
C20_UnparsableBurstKeepsReading ==
    (burst # <<>> /\ \A i \in 1..Len(burst) : Unparsable(burst[i])) => Reading = held

C20_Witness ==
    /\ burst = << <<"garbage">>, <<"0", "abc", "1">> >>
    /\ held = [temp |-> 50, paused |-> TRUE]
    /\ Reading = held

MsgConnectionLost == "ERR: Connection Lost"

\* C21: a poll whose read fails changes none of temperature, hardPaused, softEstop,
\* countdownActive, countdownRemaining and runtimeSeconds, appends the entry
\* "ERR: Connection Lost" to the log and keeps the port, so that every later poll
\* reads from it again; nothing in the dashboard turns the failure into a stop.
C21_ReadFailureKeepsState ==
    /\ [][(read_serial_port /\ last_branch' = "poll_failed") =>
            /\ UNCHANGED <<current_temp, is_hard_paused, is_estopped,
                           is_countdown_active, countdown_val, runtime_seconds,
                           current_severity, overlay_visible>>
            /\ log' = log_event(log, MsgConnectionLost)
            /\ serial_connection' = "Serial"]_vars
    /\ [][serial_connection = "Serial" => serial_connection' = "Serial"]_vars

\* two reads in a row failed, and a later poll read a critical temperature
C21_Witness ==
    /\ last_branch = "poll"
    /\ Len(log) >= 2
    /\ log[Len(log)] = MsgConnectionLost
    /\ log[Len(log) - 1] = MsgConnectionLost
    /\ current_temp = TEMP_THRESHOLD_CRITICAL
    /\ ~is_countdown_active
    /\ runtime_seconds > 0

\* C22: whatever was appended, the log holds at most MAX_LOG_ENTRIES entries.
C22_LogBounded == Len(log) <= MAX_LOG_ENTRIES

\* the log is full and has been appended to since it filled
C22_Witness ==
    /\ Len(log) = MAX_LOG_ENTRIES
    /\ Len(appended) = MAX_LOG_ENTRIES + 2

Min(a, b) == IF a < b THEN a ELSE b

\* C23: the log always holds the last min(n, MAX_LOG_ENTRIES) of the n messages
\* appended so far, in the order they were appended; an append adds the message at
\* the end and, on a full log, removes the oldest entry and no other, and the
\* entries kept are neither edited nor reordered.
C23_LogIsFifo ==
    /\ [](LET n == Len(appended)
              k == Min(n, MAX_LOG_ENTRIES)
          IN  /\ Len(log) = k
              /\ \A i \in 1..k : log[i] = appended[n - k + i].message)
    /\ [][\/ log' = log
          \/ /\ Len(log) < MAX_LOG_ENTRIES
             /\ Len(log') = Len(log) + 1
             /\ SubSeq(log', 1, Len(log)) = log
          \/ /\ Len(log) = MAX_LOG_ENTRIES
             /\ Len(log') = MAX_LOG_ENTRIES
             /\ SubSeq(log', 1, MAX_LOG_ENTRIES - 1) = Tail(log)]_vars

\* two entries were evicted: the start-up messages are gone, the newest are kept
C23_Witness ==
    /\ Len(appended) = MAX_LOG_ENTRIES + 2
    /\ log[1] = TextConnectionLost
    /\ log[MAX_LOG_ENTRIES - 2] = TextNormal
    /\ log[MAX_LOG_ENTRIES - 1] = TextHighTemperature
    /\ log[MAX_LOG_ENTRIES] = TextResumed

\* the log levels, highest priority first, and the default
LevelOrder == <<"Alarm", "Warning", "Success", "Info">>

LevelKeywords ==
    [Alarm |-> AlarmKeywords, Warning |-> WarningKeywords,
     Success |-> SuccessKeywords, Info |-> InfoKeywords]

LevelColor ==
    [Alarm |-> "#FF5252", Warning |-> "#FFD740", Success |-> "#69F0AE",
     Info |-> "#40C4FF", Debug |-> "#B0BEC5"]

LevelsFound(message) ==
    { c \in 1..Len(LevelOrder) : AnyIn(LevelKeywords[LevelOrder[c]], Upper(message)) }

ExpectedLevel ==
    [message \in LogTexts |->
        IF LevelsFound(message) = {} THEN "Debug"
        ELSE LevelOrder[CHOOSE c \in LevelsFound(message) :
                            \A d \in LevelsFound(message) : c <= d]]

\* C24: every item gets the colour of the first level, in the order Alarm, Warning,
\* Success, Info, one of whose keywords occurs in its message whatever the case of
\* the letters; a message with keywords of several levels gets the earliest of
\* them, a message with no keyword the default grey.
C24_FirstLevelWins ==
    \A i \in 1..Len(appended) :
        appended[i].color = LevelColor[ExpectedLevel[appended[i].message]]

\* the items appended last: no keyword (grey), Success and Info keywords (green),
\* Alarm and Info keywords in mixed case (red)
C24_Witness ==
    /\ Len(appended) = MAX_LOG_ENTRIES + 2
    /\ appended[MAX_LOG_ENTRIES] = [message |-> TextHeartbeat, color |-> "#B0BEC5"]
    /\ appended[MAX_LOG_ENTRIES + 1] = [message |-> TextResumed, color |-> "#69F0AE"]
    /\ appended[MAX_LOG_ENTRIES + 2] = [message |-> TextSwitchingToSim, color |-> "#FF5252"]

MsgPortOpen == "SYS: Port Open (COM10)"

MsgPortFail == "ERR: Port Fail (COM10)"

MsgSwitching == "SYS: Switching to Sim (Fail)"

\* C25: the source is chosen by the one call of setup_serial at start-up and is the
\* same ever after: a port that failed to open gave the simulator, with the entry
\* "SYS: Switching to Sim (Fail)" right after the failure's entry, a port that
\* opened gave the live port, and no poll, tick or command assigns the source again.
C25_SourceDecidedOnce ==
    /\ [](\A i \in 1..Len(log) :
             /\ log[i] = MsgPortFail =>
                   /\ serial_connection = "MockSerial"
                   /\ i < Len(log) /\ log[i + 1] = MsgSwitching
             /\ log[i] = MsgPortOpen => serial_connection = "Serial")
    /\ [](serial_connection # "unset" =>
             Cardinality({ i \in 1..Len(log) : log[i] \in {MsgPortOpen, MsgPortFail} }) = 1)
    /\ [][serial_connection # "unset" => serial_connection' = serial_connection]_vars

\* the port failed to open; polls, ticks and an E-Stop command later the source is
\* still the simulator
C25_Witness ==
    /\ serial_connection = "MockSerial"
    /\ log[1] = MsgPortFail
    /\ log[2] = MsgSwitching
    /\ runtime_seconds > 0
    /\ is_estopped
    /\ current_temp = TEMP_THRESHOLD_CRITICAL
    /\ last_branch = "poll"

\* C26 as stated: when the write of the command byte raises, the E-Stop transition
\* still completes (softEstop is the requested value, a resume resets the
\* countdown) and the failure is recorded in the event log, as an entry beside the
\* one of the transition itself.
C26_Original ==
    [][(estop_click /\ write_failed') =>
          /\ is_estopped' = ~btn_is_active
          /\ (btn_is_active =>
                 countdown_val' = COUNTDOWN_START_SECONDS /\ ~is_countdown_active')
          /\ \E i \in (Len(log) + 1)..Len(log') : log'[i] \notin {MsgHalted, MsgResumed}]_vars

\* C27 as stated: under thresholds with WARNING >= CRITICAL the dashboard never
\* executes a logic tick.
C27_Original ==
    config.warning >= config.critical =>
        runtime_seconds = 0 /\ last_branch \notin TickBranches

\* C28: the status the presentation callback shows is "EMERGENCY STOP" whenever
\* softEstop is set, hardPaused set or not; "FAN STOPPED" when hardPaused alone is
\* set; and otherwise that of the band of the current temperature: "NORMAL" below
\* WARNING, "HIGH TEMPERATURE" from WARNING to below CRITICAL, "DANGER" from CRITICAL.
C28_StatusPriority ==
    last_branch = "animation" =>
        /\ (is_estopped => system_status = "EMERGENCY STOP")
        /\ (~is_estopped /\ is_hard_paused => system_status = "FAN STOPPED")
        /\ (~is_estopped /\ ~is_hard_paused =>
              /\ (current_temp < TEMP_THRESHOLD_WARNING => system_status = "NORMAL")
              /\ (current_temp >= TEMP_THRESHOLD_WARNING
                    /\ current_temp < TEMP_THRESHOLD_CRITICAL =>
                        system_status = "HIGH TEMPERATURE")
              /\ (current_temp >= TEMP_THRESHOLD_CRITICAL => system_status = "DANGER"))

\* both flags set at a normal temperature: the soft E-Stop status is shown
C28_Witness ==
    /\ last_branch = "animation"
    /\ is_estopped
    /\ is_hard_paused
    /\ current_temp < TEMP_THRESHOLD_WARNING
    /\ system_status = "EMERGENCY STOP"

\* C29: a poll whose burst holds only malformed or short lines (fewer than three
\* fields, or a temperature or flag that is not a number) appends nothing to the
\* log: the log after the poll is the log before it.
C29_DiscardIsSilent ==
    [][(/\ read_serial_lines
        /\ burst' # <<>>
        /\ \A i \in 1..Len(burst') : Malformed(burst'[i])) => log' = log]_vars

\* a short line and a line with a bad flag were read; the log holds the entries of
\* the start-up and no more
C29_Witness ==
    /\ burst = << <<"0", "30">>, <<"0", "50", "x">> >>
    /\ last_branch = "poll"
    /\ Len(log) = 2
    /\ log[1] = MsgPortOpen

\* C30: whenever a logic tick auto-sets softEstop, the COUNTDOWN_START most recent
\* non-emergency logic ticks, this one included, each observed a temperature of at
\* least CRITICAL, and no resume was applied among them; ticks of the emergency
\* branch (a hard pause) in between do not count.
C30_NeverEarly ==
    /\ (last_branch = "expired" => hot_ticks = COUNTDOWN_START_SECONDS)
    /\ (is_countdown_active => countdown_val >= COUNTDOWN_START_SECONDS - hot_ticks)

\* the auto E-Stop fired on a countdown that a hard pause had interrupted
C30_Witness ==
    /\ last_branch = "expired"
    /\ is_estopped
    /\ hot_ticks = COUNTDOWN_START_SECONDS
    /\ critical_streak = 0

\* C31: softEstop is latched: once set, by the operator or by the auto E-Stop, it
\* stays set through every logic tick and every poll, whatever temperature and
\* hardPaused they bring; the only step that clears it is the operator's resume.
C31_SoftEstopLatched ==
    /\ [][(is_estopped /\ ~is_estopped') => (estop_click /\ btn_is_active)]_vars
    /\ [][(is_estopped /\ (update_seconds_logic \/ read_serial_port \/ read_serial_mock)) =>
             is_estopped']_vars

\* the auto E-Stop fired; a normal reading and a logic tick later softEstop is still set
C31_Witness ==
    /\ is_estopped
    /\ last_branch = "emergency"
    /\ \E i \in 1..Len(log) : log[i] = MsgTimerExpired
    /\ current_temp < TEMP_THRESHOLD_WARNING
    /\ ~is_hard_paused

\* C32: a poll changes the latest reading (temperature and hardPaused) and nothing
\* else of the safety state: softEstop, countdownActive, countdownRemaining,
\* runtimeSeconds and Severity are the same after any poll as before it, so a
\* reading replaced before the next logic tick leaves no trace in them.
C32_PollChangesReadingOnly ==
    [][(read_serial_port \/ read_serial_mock) =>
          UNCHANGED <<is_estopped, is_countdown_active, countdown_val,
                      runtime_seconds, current_severity>>]_vars

\* a poll stored a critical reading on an idle dashboard: no countdown yet, the
\* severity still normal
C32_Witness ==
    /\ last_branch = "poll"
    /\ current_temp >= TEMP_THRESHOLD_CRITICAL
    /\ ~is_hard_paused
    /\ ~is_estopped
    /\ ~is_countdown_active
    /\ countdown_val = COUNTDOWN_START_SECONDS
    /\ current_severity = "normal"
    /\ runtime_seconds = 1

\* C33: the first logic tick of the non-emergency branch after a resume evaluates as
\* on a dashboard whose countdown never ran: at a critical temperature it starts a
\* fresh countdown (active, COUNTDOWN_START - 1 remaining, severity danger) and does
\* not set softEstop; below it the countdown stays idle at COUNTDOWN_START with the
\* severity of the temperature band.
C33_FreshCountdownAfterResume ==
    /\ [](resume_trace = "resumed" =>
             ~is_estopped /\ ~is_countdown_active
             /\ countdown_val = COUNTDOWN_START_SECONDS)
    /\ [][(update_seconds_logic /\ resume_trace = "resumed" /\ ~is_hard_paused) =>
             IF current_temp >= TEMP_THRESHOLD_CRITICAL
             THEN /\ is_countdown_active'
                  /\ countdown_val' = COUNTDOWN_START_SECONDS - 1
                  /\ current_severity' = "danger"
                  /\ ~is_estopped'
                  /\ log' = log
             ELSE /\ ~is_countdown_active'
                  /\ countdown_val' = COUNTDOWN_START_SECONDS
                  /\ current_severity' \in BandSeverities(current_temp)
                  /\ ~is_estopped']_vars

\* the auto E-Stop fired, the operator resumed, polls apart the next tick saw a
\* critical temperature: a fresh countdown runs and softEstop is clear
C33_Witness ==
    /\ resume_trace = "ticked"
    /\ last_branch = "countdown"
    /\ \E i \in 1..Len(log) : log[i] = MsgTimerExpired
    /\ log[Len(log)] = MsgResumed
    /\ countdown_val = COUNTDOWN_START_SECONDS - 1
    /\ is_countdown_active
    /\ current_severity = "danger"
    /\ ~is_estopped

\* C34: the operator's stop takes effect in the click itself, so the logic tick that
\* follows takes the emergency branch: it does not advance runtimeSeconds, does not
\* decrement the countdown and does not fire the auto E-Stop, also when the
\* countdown stands at 1 with a critical temperature.
C34_StopBeatsTick ==
    /\ [][(estop_click /\ ~btn_is_active) => is_estopped']_vars
    /\ [][(update_seconds_logic /\ is_estopped) =>
             /\ last_branch' = "emergency"
             /\ UNCHANGED <<runtime_seconds, countdown_val, is_countdown_active,
                            is_estopped, current_severity, log>>]_vars

\* the operator stopped with one second left at a critical temperature; the tick
\* after the stop fired no auto E-Stop
C34_Witness ==
    /\ last_branch = "emergency"
    /\ is_estopped
    /\ ~is_hard_paused
    /\ is_countdown_active
    /\ countdown_val = 1
    /\ current_temp >= TEMP_THRESHOLD_CRITICAL
    /\ log[Len(log)] = MsgHalted
    /\ \A i \in 1..Len(log) : log[i] # MsgTimerExpired

\* C35: the active flag of the E-Stop button equals softEstop after every click,
\* auto E-Stop, poll and tick, so a click always requests the opposite of the
\* current softEstop: a click on an auto-stopped dashboard requests the resume.
C35_ButtonFollowsEstop ==
    /\ [](btn_is_active = is_estopped)
    /\ [][estop_click => is_estopped' = ~is_estopped]_vars

\* the auto E-Stop fired and the click that followed resumed
C35_Witness ==
    /\ last_branch = "estop_off"
    /\ ~is_estopped
    /\ ~btn_is_active
    /\ Len(log) >= 3
    /\ log[Len(log)] = MsgResumed
    /\ log[Len(log) - 1] = MsgHalted
    /\ log[Len(log) - 2] = MsgTimerExpired

\* C36: every step that sets softEstop, the operator's stop and the auto E-Stop
\* alike, shows the acknowledgment overlay; acknowledging the overlay hides it and
\* changes nothing else: softEstop, hardPaused, countdownActive, countdownRemaining
\* and runtimeSeconds are as before, and softEstop stays set until a resume.
C36_OverlayOnStopAckOnlyHides ==
    /\ [][(~is_estopped /\ is_estopped') => overlay_visible']_vars
    /\ [][overlay_click =>
             /\ ~overlay_visible'
             /\ UNCHANGED <<is_estopped, is_hard_paused, is_countdown_active,
                            countdown_val, runtime_seconds, current_severity,
                            btn_is_active, log>>]_vars
    /\ [](overlay_visible => is_estopped)

\* the overlay of an auto E-Stop was acknowledged: hidden, softEstop still set
C36_Witness ==
    /\ last_branch = "ack"
    /\ ~overlay_visible
    /\ is_estopped
    /\ countdown_val = 0
    /\ log[Len(log)] = MsgHalted
    /\ log[Len(log) - 1] = MsgTimerExpired

\* C37: with the logic tick scheduled again and again and no resume by the
\* operator, if from some point on the temperature held is always at least
\* CRITICAL, then an emergency state (softEstop or hardPaused) is reached and from
\* some point on runtimeSeconds no longer increases.
C37_CriticalLeadsToEmergency ==
    <>[](current_temp >= TEMP_THRESHOLD_CRITICAL) =>
        /\ <>(is_estopped \/ is_hard_paused)
        /\ <>[][runtime_seconds' = runtime_seconds]_vars

\* the countdown ran down at a critical temperature, the auto E-Stop fired and the
\* ticks since have taken the emergency branch
C37_Witness ==
    /\ last_branch = "emergency"
    /\ is_estopped
    /\ ~is_hard_paused
    /\ hot_ticks = COUNTDOWN_START_SECONDS
    /\ current_temp >= TEMP_THRESHOLD_CRITICAL
    /\ runtime_seconds >= COUNTDOWN_START_SECONDS
    /\ log[Len(log)] = MsgHalted

====
